---------------------------- MODULE Spec2Model ----------------------------
(***************************************************************************)
(* A model of jsforbrowser.js: the scan of a rendered document for its      *)
(* meaningful interactive elements.                                         *)
(*                                                                          *)
(* A JavaScript string is a sequence of one-character strings (a tag name   *)
(* is kept whole, as one element).  The values null, undefined, true and    *)
(* false are the one-element sequences Null, Undefined, JsTrue and JsFalse, *)
(* which are no string of any page modelled here.                           *)
(***************************************************************************)
EXTENDS Integers, Sequences, FiniteSets, TLC

\* doc: the document scanned.  allPotentialElements, elementDetails and
\* processedElements: the script's locals, and idx: the position of forEach.
\* emitted: the node of each record of elementDetails (a record does not
\* name its node).  console: the JSON texts logged so far.  pc, runs: where
\* the script is, and how many times it has been started.
VARIABLES doc, allPotentialElements, idx, elementDetails, processedElements,
          emitted, console, pc, runs

vars == <<doc, allPotentialElements, idx, elementDetails, processedElements,
          emitted, console, pc, runs>>

(***************************************************************************)
(* Bounds of the model.                                                     *)
(***************************************************************************)
MaxNodes == 4
MaxTreeNodes == 5
MaxRuns == 2

(***************************************************************************)
(* JavaScript values and operators.                                         *)
(***************************************************************************)
Null == <<"null">>
Undefined == <<"undefined">>
JsTrue == <<"true">>
JsFalse == <<"false">>
NullObject == [isNull |-> TRUE]

Falsy == {<<>>, Null, Undefined, JsFalse}

Truthy(v) == v \notin Falsy

\* a || b
Or(a, b) == IF Truthy(a) THEN a ELSE b

JsBool(b) == IF b THEN JsTrue ELSE JsFalse

WhiteSpace == {" ", "\t", "\n"}

IsSpace(c) == c \in WhiteSpace

RECURSIVE TrimStart(_)
TrimStart(s) ==
    IF s = <<>> THEN <<>>
    ELSE IF IsSpace(Head(s)) THEN TrimStart(Tail(s)) ELSE s

RECURSIVE TrimEnd(_)
TrimEnd(s) ==
    IF s = <<>> THEN <<>>
    ELSE IF IsSpace(s[Len(s)]) THEN TrimEnd(SubSeq(s, 1, Len(s) - 1)) ELSE s

\* String.prototype.trim
Trim(s) == TrimEnd(TrimStart(s))

\* s.replace(/\s+/g, ' '): every maximal run of white space becomes one space
RECURSIVE ReplaceSpaceRuns(_)
ReplaceSpaceRuns(s) ==
    IF s = <<>> THEN <<>>
    ELSE IF IsSpace(Head(s))
         THEN <<" ">> \o ReplaceSpaceRuns(TrimStart(s))
         ELSE <<Head(s)>> \o ReplaceSpaceRuns(Tail(s))

Digit == <<"1", "2", "3", "4", "5", "6", "7", "8", "9">>

\* the decimal text of a small positive number, as a template literal prints it
NumberToString(k) == <<Digit[k]>>

UpperOf == [t \in {"html", "body", "div", "form", "label", "input", "button",
                   "a", "h1", "option"} |->
             CASE t = "html" -> "HTML" [] t = "body" -> "BODY"
               [] t = "div" -> "DIV" [] t = "form" -> "FORM"
               [] t = "label" -> "LABEL" [] t = "input" -> "INPUT"
               [] t = "button" -> "BUTTON" [] t = "a" -> "A"
               [] t = "h1" -> "H1" [] t = "option" -> "OPTION"]

\* String.prototype.toLowerCase on a node name
ToLowerCase(u) ==
    IF u \in {UpperOf[t] : t \in DOMAIN UpperOf}
    THEN CHOOSE t \in DOMAIN UpperOf : UpperOf[t] = u
    ELSE u


(***************************************************************************)
(* The document.  doc.parent[n] is the parent node of element n and         *)
(* doc.el[n] its description; elements are numbered in document order       *)
(* (preorder), element 1 is the root element and its parent is the          *)
(* document.  The text directly inside element n is one text node, its      *)
(* first child, numbered NumElements + n.                                   *)
(***************************************************************************)
NullNode == 0
DocumentNode == -1
ELEMENT_NODE == 1

NumElements == Len(doc.parent)

ElementNodes == 1..NumElements

IsElement(x) == x \in ElementNodes

IsText(x) == x > NumElements

NodeType(x) ==
    IF x = DocumentNode THEN 9
    ELSE IF IsText(x) THEN 3
    ELSE IF IsElement(x) THEN ELEMENT_NODE ELSE 0

TagName(n) == UpperOf[doc.el[n].tag]

NodeName(x) ==
    IF x = DocumentNode THEN "#document"
    ELSE IF IsText(x) THEN "#text" ELSE TagName(x)

ParentNode(x) ==
    IF x = DocumentNode \/ x = NullNode THEN NullNode
    ELSE IF IsText(x) THEN x - NumElements ELSE doc.parent[x]

ParentElement(x) ==
    IF NodeType(ParentNode(x)) = ELEMENT_NODE THEN ParentNode(x) ELSE NullNode

ElementChildren(p) ==
    SelectSeq([i \in 1..NumElements |-> i], LAMBDA k : doc.parent[k] = p)

ChildNodes(p) ==
    IF p = DocumentNode THEN ElementChildren(p)
    ELSE IF IsText(p) \/ p = NullNode THEN <<>>
    ELSE (IF doc.el[p].text # <<>> THEN <<NumElements + p>> ELSE <<>>)
         \o ElementChildren(p)

IndexOf(s, x) == CHOOSE i \in 1..Len(s) : s[i] = x

PreviousSibling(x) ==
    LET s == ChildNodes(ParentNode(x))
        i == IndexOf(s, x)
    IN  IF i = 1 THEN NullNode ELSE s[i - 1]

NextSibling(x) ==
    LET s == ChildNodes(ParentNode(x))
        i == IndexOf(s, x)
    IN  IF i = Len(s) THEN NullNode ELSE s[i + 1]

RECURSIVE TextContent(_)
RECURSIVE ConcatTextContent(_)
\* node.textContent: the text of the node's descendants, in document order
TextContent(x) ==
    IF IsText(x) THEN doc.el[x - NumElements].text
    ELSE ConcatTextContent(ChildNodes(x))

ConcatTextContent(s) ==
    IF s = <<>> THEN <<>>
    ELSE TextContent(Head(s)) \o ConcatTextContent(Tail(s))

Rendered(n) == doc.el[n].display # "none"

RECURSIVE InnerText(_)
RECURSIVE ConcatInnerText(_)
\* element.innerText: the text as rendered, without that of display:none parts
InnerText(x) ==
    IF IsText(x) THEN doc.el[x - NumElements].text
    ELSE IF ~Rendered(x) THEN <<>>
    ELSE ConcatInnerText(ChildNodes(x))

ConcatInnerText(s) ==
    IF s = <<>> THEN <<>>
    ELSE InnerText(Head(s)) \o ConcatInnerText(Tail(s))

RECURSIVE Closest(_, _)
\* element.closest(tag): the element itself or its nearest ancestor element
\* with that tag, or null
Closest(n, tag) ==
    IF n = NullNode THEN NullNode
    ELSE IF doc.el[n].tag = tag THEN n
    ELSE Closest(ParentElement(n), tag)

\* element.getAttribute(a): null when the attribute is absent
GetAttribute(n, a) == doc.el[n].attrs[a]

ElementId(n) == doc.el[n].id

ClassName(n) == doc.el[n].cls

FormControls == {"input", "button", "option"}

\* the properties that exist only on some kinds of host element
HostValue(n) ==
    IF doc.el[n].tag \in FormControls THEN doc.el[n].value ELSE Undefined

HostDisabled(n) ==
    IF doc.el[n].tag \in FormControls THEN JsBool(doc.el[n].disabled)
    ELSE Undefined

HostReadOnly(n) ==
    IF doc.el[n].tag = "input" THEN JsBool(doc.el[n].readOnly) ELSE Undefined

HostChecked(n) ==
    IF doc.el[n].tag = "input" THEN JsBool(doc.el[n].checked) ELSE Undefined

\* selected exists on option elements only
HostSelected(n) ==
    IF doc.el[n].tag = "option" THEN JsBool(doc.el[n].selected) ELSE Undefined

HostType(n) == doc.el[n].type

\* form.name reflects the name attribute, "" when absent
FormName(n) == Or(GetAttribute(n, "name"), <<>>)

\* document.querySelector(`label[for="${id}"]`): the first label, in document
\* order, whose for attribute is id; null when there is none
QueryLabelFor(id) ==
    LET m == {k \in ElementNodes :
                doc.el[k].tag = "label" /\ GetAttribute(k, "for") = id}
    IN  IF m = {} THEN NullNode ELSE CHOOSE k \in m : \A j \in m : k <= j

(***************************************************************************)
(* getXPathForElement.  A path is a sequence of tokens: the characters of   *)
(* an id, and otherwise whole tag names, digits and punctuation.            *)
(***************************************************************************)
RECURSIVE CountPreviousSiblings(_, _)
\* the loop over element.previousSibling
CountPreviousSiblings(sibling, element) ==
    IF sibling = NullNode THEN 0
    ELSE (IF NodeType(sibling) = ELEMENT_NODE
             /\ NodeName(sibling) = NodeName(element) THEN 1 ELSE 0)
         + CountPreviousSiblings(PreviousSibling(sibling), element)

RECURSIVE HasNextSiblings(_, _)
\* the loop over element.nextSibling
HasNextSiblings(sibling, element) ==
    IF sibling = NullNode THEN FALSE
    ELSE IF NodeName(sibling) = NodeName(element) THEN TRUE
    ELSE HasNextSiblings(NextSibling(sibling), element)

\* XPathPart with a fault: every preceding sibling counted, whatever its tag
XPathPartMiscounted(element) ==
    LET s == ChildNodes(ParentNode(element))
        nbOfPreviousSiblings == IndexOf(s, element) - 1
        hasNextSiblings == HasNextSiblings(NextSibling(element), element)
        tagName == ToLowerCase(NodeName(element))
    IN  IF nbOfPreviousSiblings # 0 \/ hasNextSiblings
        THEN <<tagName, "[">> \o NumberToString(nbOfPreviousSiblings + 1)
             \o <<"]">>
        ELSE <<tagName>>

\* one pass of the loop's body: the segment of one level
XPathPart(element) ==
    LET nbOfPreviousSiblings ==
            CountPreviousSiblings(PreviousSibling(element), element)
        hasNextSiblings == HasNextSiblings(NextSibling(element), element)
        tagName == ToLowerCase(NodeName(element))
    IN  IF nbOfPreviousSiblings # 0 \/ hasNextSiblings
        THEN <<tagName, "[">> \o NumberToString(nbOfPreviousSiblings + 1)
             \o <<"]">>
        ELSE <<tagName>>

RECURSIVE XPathParts(_)
\* the while loop: parts.unshift(part) from the element up to the root
XPathParts(element) ==
    IF element = NullNode \/ NodeType(element) # ELEMENT_NODE THEN <<>>
    ELSE Append(XPathParts(ParentNode(element)), XPathPart(element))

RECURSIVE Join(_, _)
\* Array.prototype.join
Join(parts, sep) ==
    IF parts = <<>> THEN <<>>
    ELSE IF Len(parts) = 1 THEN parts[1]
    ELSE parts[1] \o <<sep>> \o Join(Tail(parts), sep)

IdXPath(id) == <<"//*[@id='">> \o id \o <<"']">>

\* getXPathForElement with a fault: no shortcut for an element with an id
getXPathForElementPositional(element) ==
    LET parts == XPathParts(element)
    IN  IF Len(parts) # 0 THEN <<"/">> \o Join(parts, "/") ELSE Null

getXPathForElement(element) ==
    IF element # NullNode /\ Truthy(ElementId(element))
    THEN IdXPath(ElementId(element))
    ELSE LET parts == XPathParts(element)
         IN  IF Len(parts) # 0 THEN <<"/">> \o Join(parts, "/") ELSE Null

(***************************************************************************)
(* getAncestorContext.                                                      *)
(***************************************************************************)
ParentContext(parent) ==
    [tagName   |-> <<ToLowerCase(TagName(parent))>>,
     id        |-> Or(ElementId(parent), Null),
     role      |-> Or(GetAttribute(parent, "role"), Null),
     ariaLabel |-> Or(GetAttribute(parent, "aria-label"), Null)]

FormContext(formAncestor) ==
    [id   |-> Or(ElementId(formAncestor), Null),
     name |-> Or(FormName(formAncestor), Null)]

WithForm(parentContext, form) ==
    [k \in DOMAIN parentContext \cup {"form"} |->
        IF k = "form" THEN form ELSE parentContext[k]]

\* the nearest form among the ancestors proper
FormAncestorStrict(element) == Closest(ParentElement(element), "form")

\* element.closest('form')
FormAncestor(element) == Closest(element, "form")

getAncestorContext(element) ==
    LET parent == ParentElement(element)
    IN  IF parent # NullNode
        THEN LET formAncestor == FormAncestor(element)
             IN  IF formAncestor # NullNode
                 THEN WithForm(ParentContext(parent), FormContext(formAncestor))
                 ELSE ParentContext(parent)
        ELSE NullObject

(***************************************************************************)
(* Element discovery: interactiveSelector and document.querySelectorAll.    *)
(***************************************************************************)
TextTrue == <<"t", "r", "u", "e">>
RoleButton == <<"b", "u", "t", "t", "o", "n">>
RoleLink == <<"l", "i", "n", "k">>
RoleTab == <<"t", "a", "b">>

TypePattern(t) == [kind |-> "type", name |-> t, value |-> <<>>]

AttrIs(a, v) == [kind |-> "attr=", name |-> a, value |-> v]

HasAttr(a) == [kind |-> "attr", name |-> a, value |-> <<>>]

interactiveSelector ==
    <<TypePattern("a"), TypePattern("button"), TypePattern("input"),
      TypePattern("select"), TypePattern("textarea"), TypePattern("label"),
      TypePattern("h1"), TypePattern("h2"), TypePattern("h3"),
      TypePattern("h4"), AttrIs("role", RoleButton), AttrIs("role", RoleLink),
      AttrIs("role", RoleTab), HasAttr("onclick")>>

Matches(n, pattern) ==
    CASE pattern.kind = "type" -> doc.el[n].tag = pattern.name
      [] pattern.kind = "attr=" -> GetAttribute(n, pattern.name) = pattern.value
      [] pattern.kind = "attr" -> GetAttribute(n, pattern.name) # Null

DocumentOrder == [i \in 1..NumElements |-> i]

\* QuerySelectorAll with a fault: the matches of each pattern in turn
RECURSIVE QuerySelectorAllPerPattern(_)
QuerySelectorAllPerPattern(selector) ==
    IF selector = <<>> THEN <<>>
    ELSE SelectSeq(DocumentOrder, LAMBDA n : Matches(n, Head(selector)))
         \o QuerySelectorAllPerPattern(Tail(selector))

\* document.querySelectorAll(selector): the elements that match some pattern
\* of the list, each once, in document order
QuerySelectorAll(selector) ==
    SelectSeq(DocumentOrder,
              LAMBDA n : \E i \in 1..Len(selector) : Matches(n, selector[i]))

(***************************************************************************)
(* The body of the forEach callback, for one element.                       *)
(***************************************************************************)
Rect(n) == doc.el[n].rect

\* Rule 1 with a fault: the size of the box not looked at
IsInvisibleIgnoringSize(n) ==
    \/ doc.el[n].offsetParentNull
    \/ doc.el[n].visibility = "hidden"
    \/ doc.el[n].display = "none"

\* Rule 1
IsInvisible(n) ==
    \/ Rect(n).width = 0
    \/ Rect(n).height = 0
    \/ doc.el[n].offsetParentNull
    \/ doc.el[n].visibility = "hidden"
    \/ doc.el[n].display = "none"

MainText(n) == Trim(Or(Or(TextContent(n), InnerText(n)), <<>>))

ValueText(n) == IF Truthy(HostValue(n)) THEN Trim(HostValue(n)) ELSE <<>>

VisibleText(n) == Or(MainText(n), ValueText(n))

LabelText(n) ==
    LET label == IF Truthy(ElementId(n)) THEN QueryLabelFor(ElementId(n))
                 ELSE NullNode
        forText == IF label # NullNode
                   THEN Trim(Or(TextContent(label), InnerText(label)))
                   ELSE <<>>
        parentLabel == Closest(n, "label")
    IN  IF ~Truthy(forText) /\ parentLabel # NullNode
        THEN Trim(Or(TextContent(parentLabel), InnerText(parentLabel)))
        ELSE forText

NormalizeSpace(s) == Trim(ReplaceSpaceRuns(s))

ComputedText(n) ==
    NormalizeSpace(Or(Or(Or(Or(Or(GetAttribute(n, "aria-label"), LabelText(n)),
                               VisibleText(n)),
                            GetAttribute(n, "placeholder")),
                         GetAttribute(n, "name")), <<>>))

\* Rule 2 with a fault: the text tested before it is normalized
IsUnidentifiableBeforeNormalizing(n) ==
    /\ ~Truthy(ElementId(n))
    /\ ~Truthy(Or(Or(Or(Or(Or(GetAttribute(n, "aria-label"), LabelText(n)),
                           VisibleText(n)),
                        GetAttribute(n, "placeholder")),
                     GetAttribute(n, "name")), <<>>))

\* Rule 2
IsUnidentifiable(n) == ~Truthy(ElementId(n)) /\ ~Truthy(ComputedText(n))

ElementRecord(n) ==
    [tagName    |-> <<ToLowerCase(TagName(n))>>,
     attributes |->
        [id          |-> Or(ElementId(n), Null),
         class       |-> Or(ClassName(n), Null),
         name        |-> Or(GetAttribute(n, "name"), Null),
         type        |-> IF ToLowerCase(TagName(n)) = "input" THEN HostType(n)
                         ELSE Null,
         role        |-> Or(GetAttribute(n, "role"), Null),
         ariaLabel   |-> Or(GetAttribute(n, "aria-label"), Null),
         placeholder |-> Or(GetAttribute(n, "placeholder"), Null),
         href        |-> Or(GetAttribute(n, "href"), Null)],
     state      |->
        [isDisabled     |-> HostDisabled(n),
         isReadOnly     |-> HostReadOnly(n),
         isChecked      |-> HostChecked(n),
         isSelected     |-> HostSelected(n),
         isHiddenByAria |-> JsBool(GetAttribute(n, "aria-hidden") = TextTrue)],
     text       |->
        [visibleText  |-> Or(VisibleText(n), Null),
         labelText    |-> Or(LabelText(n), Null),
         computedText |-> ComputedText(n)],
     context    |-> getAncestorContext(n),
     xpath      |-> getXPathForElement(n),
     location   |-> [x |-> Rect(n).x, y |-> Rect(n).y,
                     width |-> Rect(n).width, height |-> Rect(n).height]]

(***************************************************************************)
(* JSON.stringify and JSON.parse.  The text of an object is the sequence of *)
(* its members <<key, value>>, in the order the keys were written; a member *)
(* whose value is undefined is not written.                                 *)
(***************************************************************************)
AttributeKeys == <<"id", "class", "name", "type", "role", "ariaLabel",
                   "placeholder", "href">>
StateKeys == <<"isDisabled", "isReadOnly", "isChecked", "isSelected",
               "isHiddenByAria">>
TextKeys == <<"visibleText", "labelText", "computedText">>
ContextKeys == <<"tagName", "id", "role", "ariaLabel">>
FormKeys == <<"id", "name">>

JsonNull == [json |-> "null"]

StringifyObject(obj, keys) ==
    SelectSeq([i \in 1..Len(keys) |-> <<keys[i], obj[keys[i]]>>],
              LAMBDA m : m[2] # Undefined)

ParseObject(members) ==
    [k \in {members[i][1] : i \in 1..Len(members)} |->
        members[CHOOSE i \in 1..Len(members) : members[i][1] = k][2]]

StringifyContext(ctx) ==
    IF ctx = NullObject THEN JsonNull
    ELSE [members |-> StringifyObject(ctx, ContextKeys),
          form    |-> IF "form" \in DOMAIN ctx
                      THEN <<StringifyObject(ctx.form, FormKeys)>> ELSE <<>>]

ParseContext(json) ==
    IF json = JsonNull THEN NullObject
    ELSE IF json.form # <<>>
         THEN WithForm(ParseObject(json.members), ParseObject(json.form[1]))
         ELSE ParseObject(json.members)

StringifyRecord(r) ==
    [tagName    |-> r.tagName,
     attributes |-> StringifyObject(r.attributes, AttributeKeys),
     state      |-> StringifyObject(r.state, StateKeys),
     text       |-> StringifyObject(r.text, TextKeys),
     context    |-> StringifyContext(r.context),
     xpath      |-> r.xpath,
     location   |-> r.location]

ParseRecord(j) ==
    [tagName    |-> j.tagName,
     attributes |-> ParseObject(j.attributes),
     state      |-> ParseObject(j.state),
     text       |-> ParseObject(j.text),
     context    |-> ParseContext(j.context),
     xpath      |-> j.xpath,
     location   |-> j.location]

\* JSON.stringify(elementDetails, null, 2)
JSONStringify(list) == [i \in 1..Len(list) |-> StringifyRecord(list[i])]

JSONParse(text) == [i \in 1..Len(text) |-> ParseRecord(text[i])]

(***************************************************************************)
(* The documents the scan is run on.                                        *)
(***************************************************************************)
TextGo == <<"G", "o">>
TextSubmitNow == <<"S", "u", "b", "m", "i", "t", " ", "N", "o", "w">>
TextSpaced == <<" ", "a", " ", "\n", "b", "\t">>
TextBlank == <<" ", " ">>
TextL == <<"L">>
TextP == <<"P">>
TextN == <<"n">>
TextV == <<" ", "v">>
IdA == <<"a">>
IdSubmitBtn == <<"s", "u", "b", "m", "i", "t", "-", "b", "t", "n">>
TypeText == <<"t", "e", "x", "t">>
TypeCheckbox == <<"c", "h", "e", "c", "k", "b", "o", "x">>

AttributeNames == {"role", "onclick", "aria-label", "placeholder", "name",
                   "for", "href", "aria-hidden"}

NoAttributes == [a \in AttributeNames |-> Null]

Shown == [rect |-> [x |-> 8, y |-> 8, width |-> 50, height |-> 20],
          offsetParentNull |-> FALSE, visibility |-> "visible",
          display |-> "block"]

\* how the browser can render an element: laid out and visible; display:none
\* on itself; display:none on an ancestor; visibility:hidden; an empty box of
\* no width, or of no height; position:fixed (laid out, no offset parent)
Renderings ==
    {Shown,
     [Shown EXCEPT !.rect.width = 0, !.rect.height = 0,
                   !.offsetParentNull = TRUE, !.display = "none"],
     [Shown EXCEPT !.rect.width = 0, !.rect.height = 0,
                   !.offsetParentNull = TRUE],
     [Shown EXCEPT !.visibility = "hidden"],
     [Shown EXCEPT !.rect.width = 0],
     [Shown EXCEPT !.rect.height = 0],
     [Shown EXCEPT !.offsetParentNull = TRUE]}

Element(tag) ==
    [tag |-> tag, id |-> <<>>, cls |-> <<>>, attrs |-> NoAttributes,
     text |-> <<>>, value |-> <<>>, type |-> TypeText,
     disabled |-> FALSE, readOnly |-> FALSE, checked |-> FALSE,
     selected |-> FALSE, rect |-> Shown.rect,
     offsetParentNull |-> Shown.offsetParentNull,
     visibility |-> Shown.visibility, display |-> Shown.display]

WithRendering(e, r) ==
    [e EXCEPT !.rect = r.rect, !.offsetParentNull = r.offsetParentNull,
              !.visibility = r.visibility, !.display = r.display]

\* the root element never has an offset parent
RootElements ==
    {[Element("html") EXCEPT !.offsetParentNull = TRUE],
     [Element("html") EXCEPT !.offsetParentNull = TRUE, !.id = IdA,
                             !.attrs["onclick"] = TextGo]}

\* the parent sequences of the trees of n elements numbered in document order
RECURSIVE Ancestors(_, _)
Ancestors(parent, k) ==
    IF k = DocumentNode THEN {} ELSE {k} \cup Ancestors(parent, parent[k])

RECURSIVE Shapes(_)
Shapes(n) ==
    IF n = 1 THEN {<<DocumentNode>>}
    ELSE UNION {{Append(p, a) : a \in Ancestors(p, n - 1)} : p \in Shapes(n - 1)}

Root == [Element("html") EXCEPT !.offsetParentNull = TRUE]

\* Trees of every shape over a few kinds of element: containers, forms,
\* candidates with and without an id, candidates matched by several patterns.
StructureElements ==
    {Element("div"),
     [Element("form") EXCEPT !.attrs["onclick"] = TextGo,
                             !.attrs["name"] = TextN],
     [Element("button") EXCEPT !.text = TextGo],
     [Element("button") EXCEPT !.id = IdSubmitBtn, !.text = TextGo,
                               !.cls = TextP, !.attrs["role"] = RoleButton,
                               !.attrs["onclick"] = TextGo],
     [Element("label") EXCEPT !.text = TextL],
     [Element("input") EXCEPT !.type = TypeCheckbox, !.checked = TRUE]}

StructureDocs ==
    UNION {{[parent |-> p, el |-> [i \in 1..n |-> IF i = 1 THEN Root ELSE f[i]]] :
             p \in Shapes(n), f \in [2..n -> StructureElements]} :
           n \in 1..MaxNodes}

\* Larger trees over two tags, for the sibling counts of the paths.
TreeElements == {Element("div"), [Element("button") EXCEPT !.text = TextGo]}

TreeDocs ==
    UNION {{[parent |-> p, el |-> [i \in 1..n |-> IF i = 1 THEN Root ELSE f[i]]] :
             p \in Shapes(n), f \in [2..n -> TreeElements]} :
           n \in 1..MaxTreeNodes}

\* One element of each kind, in each rendering, under each kind of parent.
KindElements ==
    {[Element("a") EXCEPT !.text = TextGo, !.attrs["href"] = TextP],
     [Element("option") EXCEPT !.attrs["onclick"] = TextGo, !.selected = TRUE,
                               !.value = TextV, !.text = TextL],
     [Element("h1") EXCEPT !.text = TextSpaced,
                           !.attrs["aria-hidden"] = TextTrue],
     [Element("input") EXCEPT !.id = IdA, !.disabled = TRUE,
                              !.readOnly = TRUE],
     [Element("form") EXCEPT !.id = IdA, !.attrs["role"] = RoleButton],
     [Element("div") EXCEPT !.attrs["role"] = RoleTab]}

ParentElements ==
    {[Element("div") EXCEPT !.id = IdA, !.attrs["role"] = RoleLink,
                            !.attrs["aria-label"] = TextSubmitNow],
     [Element("form") EXCEPT !.id = IdSubmitBtn, !.attrs["name"] = TextN],
     Element("form"),
     Element("label")}

KindDocs ==
    {[parent |-> <<DocumentNode, 1, 2>>,
      el |-> <<root, parent, WithRendering(e, r)>>] :
        root \in RootElements, parent \in ParentElements,
        e \in KindElements, r \in Renderings}

\* The sources of computedText: an element with or without an aria-label, own
\* text, a value, a placeholder, a name and an id, beside a label that may be
\* for it and inside a parent that may be a label.
AriaLabels == {Null, TextBlank, TextSubmitNow}
Placeholders == {Null, TextBlank, TextP}
Names == {Null, TextN}
Ids == {<<>>, IdA}

TextBearers ==
    {[Element("button") EXCEPT !.text = t] : t \in {<<>>, TextGo, TextSpaced}}
    \cup {[Element("input") EXCEPT !.value = v] : v \in {<<>>, TextV}}

TextSubjects ==
    {[e EXCEPT !.attrs["aria-label"] = a, !.attrs["placeholder"] = p,
               !.attrs["name"] = n, !.id = i] :
        e \in TextBearers, a \in AriaLabels, p \in Placeholders, n \in Names,
        i \in Ids}

Companions ==
    {Element("div"),
     [Element("label") EXCEPT !.attrs["for"] = IdA, !.text = TextL],
     [Element("label") EXCEPT !.attrs["for"] = IdA, !.text = TextBlank]}

Wrappers ==
    {Element("div"), Element("label"), [Element("label") EXCEPT !.text = TextP]}

TextDocs ==
    {[parent |-> <<DocumentNode, 1, 1, 3>>,
      el |-> <<Root, c, w, WithRendering(e, r)>>] :
        c \in Companions, w \in Wrappers, e \in TextSubjects,
        r \in {Shown, [Shown EXCEPT !.rect.width = 0]}}

Docs == StructureDocs \cup TreeDocs \cup KindDocs \cup TextDocs

(***************************************************************************)
(* The scan: one invocation of the script is the discovery of the           *)
(* candidates, one ProcessElement per candidate, and Output.                *)
(***************************************************************************)
\* push with a fault: the element appended twice
PushTwice(list, x) == Append(Append(list, x), x)

\* Array.prototype.push
Push(list, x) == Append(list, x)

\* the dedup set with a fault: one set kept from invocation to invocation
KeptProcessedElements(old) == old

\* const processedElements = new Set()
NewProcessedElements(old) == {}

\* const elementDetails = []
NewElementDetails(old) == <<>>

Init ==
    /\ doc \in Docs
    /\ allPotentialElements = QuerySelectorAll(interactiveSelector)
    /\ idx = 1
    /\ elementDetails = <<>>
    /\ processedElements = {}
    /\ emitted = <<>>
    /\ console = <<>>
    /\ pc = "scan"
    /\ runs = 1

\* the forEach callback on the next candidate
ProcessElement ==
    /\ pc = "scan"
    /\ idx <= Len(allPotentialElements)
    /\ LET element == allPotentialElements[idx]
       IN  IF \/ element \in processedElements
              \/ IsInvisible(element)
              \/ IsUnidentifiable(element)
           THEN UNCHANGED <<elementDetails, processedElements, emitted>>
           ELSE /\ processedElements' = processedElements \cup {element}
                /\ elementDetails' = Push(elementDetails, ElementRecord(element))
                /\ emitted' = Push(emitted, element)
    /\ idx' = idx + 1
    /\ UNCHANGED <<doc, allPotentialElements, console, pc, runs>>

\* console.log(JSON.stringify(elementDetails, null, 2)), after the last candidate
Output ==
    /\ pc = "scan"
    /\ idx > Len(allPotentialElements)
    /\ console' = Append(console, JSONStringify(elementDetails))
    /\ pc' = "done"
    /\ UNCHANGED <<doc, allPotentialElements, idx, elementDetails,
                   processedElements, emitted, runs>>

\* the script is run again on the same document
Invoke ==
    /\ pc = "done"
    /\ runs < MaxRuns
    /\ allPotentialElements' = QuerySelectorAll(interactiveSelector)
    /\ idx' = 1
    /\ elementDetails' = NewElementDetails(elementDetails)
    /\ processedElements' = NewProcessedElements(processedElements)
    /\ emitted' = <<>>
    /\ pc' = "scan"
    /\ runs' = runs + 1
    /\ UNCHANGED <<doc, console>>

Next == ProcessElement \/ Output \/ Invoke

Spec == Init /\ [][Next]_vars

(***************************************************************************)
(* Properties.                                                              *)
(***************************************************************************)
Range(s) == {s[i] : i \in 1..Len(s)}

InOutput(n) == n \in Range(emitted)

Visited(n) == \E i \in 1..(idx - 1) : allPotentialElements[i] = n

MatchesSelectorSet(n) ==
    \/ doc.el[n].tag \in {"a", "button", "input", "select", "textarea",
                          "label", "h1", "h2", "h3", "h4"}
    \/ doc.el[n].attrs["role"] \in {RoleButton, RoleLink, RoleTab}
    \/ doc.el[n].attrs["onclick"] # Null

PassesVisibilityFilter(n) ==
    /\ doc.el[n].rect.width # 0
    /\ doc.el[n].rect.height # 0
    /\ ~doc.el[n].offsetParentNull
    /\ doc.el[n].visibility # "hidden"
    /\ doc.el[n].display # "none"

RecordsFor(n) == {i \in 1..Len(emitted) : emitted[i] = n}

PatternsMatched(n) ==
    {i \in 1..Len(interactiveSelector) : Matches(n, interactiveSelector[i])}

\* C2: at every point of the pass no node has more than one record in the
\* output, also when it matches several patterns of the selector set.
C2_NoNodeTwice ==
    /\ Len(elementDetails) = Len(emitted)
    /\ \A n \in ElementNodes : Cardinality(RecordsFor(n)) <= 1

C2_Witness ==
    /\ pc = "done"
    /\ \E n \in ElementNodes :
          Cardinality(PatternsMatched(n)) >= 3 /\ InOutput(n)
    /\ \E n \in ElementNodes :
          /\ doc.el[n].tag = "input" /\ InOutput(n)
          /\ doc.el[ParentNode(n)].tag = "label" /\ InOutput(ParentNode(n))

\* C3 as claimed: every record of the output has a non-empty computedText.
C3_ComputedTextNeverEmpty ==
    \A i \in 1..Len(elementDetails) :
        elementDetails[i].text.computedText # <<>>

\* C3 as amended: every record of the output has a non-empty computedText or
\* a non-empty id; computedText is the empty string only in records of
\* elements that passed the relevance gate by their id.
C3_ComputedTextOrId ==
    \A i \in 1..Len(elementDetails) :
        \/ elementDetails[i].text.computedText \notin {<<>>, Null, Undefined}
        \/ /\ elementDetails[i].text.computedText = <<>>
           /\ elementDetails[i].attributes.id \notin {<<>>, Null, Undefined}

C3_Witness ==
    /\ \E i \in 1..Len(elementDetails) :
          /\ elementDetails[i].text.computedText = <<>>
          /\ elementDetails[i].attributes.id = IdA
    /\ \E i \in 1..Len(elementDetails) :
          /\ elementDetails[i].attributes.id = Null
          /\ elementDetails[i].text.computedText # <<>>

\* C7: the records are in document order: of two nodes of the output, the
\* one earlier in the document has the earlier record, and each record is
\* that of its node.
C7_DocumentOrder ==
    /\ Len(elementDetails) = Len(emitted)
    /\ \A i, j \in 1..Len(emitted) : i < j <=> emitted[i] < emitted[j]
    /\ \A i \in 1..Len(emitted) : elementDetails[i] = ElementRecord(emitted[i])

C7_Witness ==
    /\ pc = "done"
    /\ Len(emitted) >= 2
    /\ \E i \in 1..(Len(emitted) - 1) :
          \E n \in ElementNodes :
              /\ emitted[i] < n /\ n < emitted[i + 1]
              /\ MatchesSelectorSet(n)

\* C10: every invocation on the unchanged document logs the same record
\* sequence as the first; a node of one invocation's output is in the next
\* one's too.
C10_NoStateAcrossInvocations ==
    /\ \A i \in 1..Len(console) : console[i] = console[1]
    /\ (pc = "done" /\ Len(console) >= 1) =>
          console[Len(console)] = JSONStringify(elementDetails)
    /\ pc = "scan" => processedElements = Range(emitted)

C10_Witness ==
    /\ Len(console) >= 2
    /\ console[1] # <<>>
    /\ runs >= 2
    /\ pc = "done"
    /\ emitted # <<>>

(***************************************************************************)
(* The evaluation of a positional path by the browser: each step /tag       *)
(* selects the element children with that tag of the nodes selected so      *)
(* far, and /tag[k] the k-th such child of each.                            *)
(***************************************************************************)
ParseNumber(d) == CHOOSE k \in 1..Len(Digit) : Digit[k] = d

ChildrenNamed(c, name) ==
    SelectSeq(ChildNodes(c),
              LAMBDA x : IsElement(x) /\ doc.el[x].tag = name)

RECURSIVE EvaluateSteps(_, _)
EvaluateSteps(tokens, context) ==
    IF tokens = <<>> THEN context
    ELSE IF Len(tokens) < 2 \/ tokens[1] # "/" THEN {}
    ELSE LET name == tokens[2]
             indexed == Len(tokens) >= 5 /\ tokens[3] = "[" /\ tokens[5] = "]"
             rest == SubSeq(tokens, IF indexed THEN 6 ELSE 3, Len(tokens))
             Step(c) ==
                 LET kids == ChildrenNamed(c, name)
                 IN  IF indexed
                     THEN (IF ParseNumber(tokens[4]) <= Len(kids)
                           THEN {kids[ParseNumber(tokens[4])]} ELSE {})
                     ELSE Range(kids)
         IN  EvaluateSteps(rest, UNION {Step(c) : c \in context})

EvaluateXPath(path) == EvaluateSteps(path, {DocumentNode})

SameTagSiblings(n) ==
    {k \in ElementNodes :
        k # n /\ doc.parent[k] = doc.parent[n] /\ doc.el[k].tag = doc.el[n].tag}

\* the segment of one level, as the claim states it
ExpectedSegment(n) ==
    IF SameTagSiblings(n) = {} THEN <<doc.el[n].tag>>
    ELSE <<doc.el[n].tag, "[",
           Digit[1 + Cardinality({k \in SameTagSiblings(n) : k < n})], "]">>

RECURSIVE ExpectedPath(_)
ExpectedPath(n) ==
    IF n = DocumentNode THEN <<>>
    ELSE ExpectedPath(doc.parent[n]) \o <<"/">> \o ExpectedSegment(n)

\* C5: for an element without an id the path is, root to leaf, one segment
\* per level, tag[k] with k = 1 + the number of preceding same-tag siblings
\* of that level's node when it has a same-tag sibling and the bare tag
\* otherwise; evaluated on the same tree the path selects exactly that
\* element.
C5_PositionalPathResolves ==
    \A n \in ElementNodes :
        doc.el[n].id = <<>> =>
            /\ getXPathForElement(n) = ExpectedPath(n)
            /\ EvaluateXPath(getXPathForElement(n)) = {n}
            /\ \A i \in 1..Len(emitted) :
                  emitted[i] = n => elementDetails[i].xpath = ExpectedPath(n)

\* a record of an element that is the second of its tag among its siblings,
\* after a text node, under a parent that is the second of the same tag among
\* its own siblings: both segments are tag[2], the count started afresh
C5_Witness ==
    \E i \in 1..Len(emitted) :
        LET n == emitted[i]
            p == doc.parent[n]
        IN  /\ doc.el[n].id = <<>>
            /\ p # 1
            /\ doc.el[p].tag = doc.el[n].tag
            /\ Cardinality({k \in SameTagSiblings(p) : k < p}) = 1
            /\ Cardinality({k \in SameTagSiblings(n) : k < n}) = 1
            /\ doc.el[p].text # <<>>
            /\ EvaluateXPath(elementDetails[i].xpath) = {n}

XPathSubmitBtn ==
    <<"//*[@id='", "s", "u", "b", "m", "i", "t", "-", "b", "t", "n", "']">>

\* C6: the record of an element with a non-empty id v has the xpath
\* //*[@id='v'], wherever the element is in the tree and whether or not other
\* elements have the same id; id "submit-btn" gives //*[@id='submit-btn'].
C6_IdShortcut ==
    \A i \in 1..Len(emitted) :
        LET v == doc.el[emitted[i]].id
        IN  /\ v # <<>> =>
                  elementDetails[i].xpath = <<"//*[@id='">> \o v \o <<"']">>
            /\ v = IdSubmitBtn => elementDetails[i].xpath = XPathSubmitBtn

\* two records of elements with the same id, at different depths
C6_Witness ==
    \E i, j \in 1..Len(emitted) :
        /\ i # j
        /\ doc.el[emitted[i]].id = IdSubmitBtn
        /\ doc.el[emitted[j]].id = IdSubmitBtn
        /\ doc.parent[emitted[j]] = emitted[i]
        /\ elementDetails[j].xpath = XPathSubmitBtn

\* white space collapsed to single spaces and trimmed, as the claim states it
RECURSIVE Collapse(_)
Collapse(s) ==
    IF Len(s) < 2 THEN s
    ELSE IF s[1] \in WhiteSpace /\ s[2] \in WhiteSpace THEN Collapse(Tail(s))
    ELSE <<IF s[1] \in WhiteSpace THEN " " ELSE s[1]>> \o Collapse(Tail(s))

Normalized(v) ==
    IF v \in {Null, Undefined} THEN <<>>
    ELSE LET c == Collapse(v)
             a == IF c # <<>> /\ c[1] \in WhiteSpace THEN Tail(c) ELSE c
         IN  IF a # <<>> /\ a[Len(a)] \in WhiteSpace
             THEN SubSeq(a, 1, Len(a) - 1) ELSE a

EnclosingLabels(n) ==
    {k \in Ancestors(doc.parent, n) : doc.el[k].tag = "label"}

\* the sources of computedText in the claim's order of priority
TextSources(n) ==
    <<doc.el[n].attrs["aria-label"],
      IF doc.el[n].id # <<>> /\ QueryLabelFor(doc.el[n].id) # NullNode
      THEN TextContent(QueryLabelFor(doc.el[n].id)) ELSE <<>>,
      IF EnclosingLabels(n) # {}
      THEN TextContent(CHOOSE k \in EnclosingLabels(n) :
                          \A j \in EnclosingLabels(n) : j <= k)
      ELSE <<>>,
      TextContent(n),
      IF doc.el[n].tag \in FormControls THEN doc.el[n].value ELSE <<>>,
      doc.el[n].attrs["placeholder"],
      doc.el[n].attrs["name"]>>

FirstNonEmpty(sources) ==
    LET ok == {i \in 1..Len(sources) : Normalized(sources[i]) # <<>>}
    IN  IF ok = {} THEN <<>>
        ELSE Normalized(sources[CHOOSE i \in ok : \A j \in ok : i <= j])

\* C4 as claimed: the computedText of every record is the normalized value of
\* the first source, in the order aria-label, label for the id, enclosing
\* label, own text, value, placeholder, name, that is not empty once
\* normalized.
C4_FirstNonEmptySourceWins ==
    \A i \in 1..Len(emitted) :
        elementDetails[i].text.computedText = FirstNonEmpty(TextSources(emitted[i]))

\* the same, for the elements whose aria-label and placeholder are absent or
\* hold more than white space
C4_HoldsWithoutBlankAttributes ==
    \A i \in 1..Len(emitted) :
        (/\ doc.el[emitted[i]].attrs["aria-label"] # TextBlank
         /\ doc.el[emitted[i]].attrs["placeholder"] # TextBlank)
        => elementDetails[i].text.computedText
              = FirstNonEmpty(TextSources(emitted[i]))

\* the example of C4: aria-label "Submit Now" over own text "Go"
C4_SubmitNowExample ==
    \A i \in 1..Len(emitted) :
        (/\ doc.el[emitted[i]].attrs["aria-label"] = TextSubmitNow
         /\ doc.el[emitted[i]].text = TextGo)
        => elementDetails[i].text.computedText = TextSubmitNow

\* C8 as claimed: the logged JSON text, parsed again, gives records equal
\* field for field to those of elementDetails.
C8_RoundTripIdentical ==
    (pc = "done" /\ console # <<>>) =>
        JSONParse(console[Len(console)]) = elementDetails

\* what the round trip does keep: every field but the state fields that are
\* undefined on the host element, which the parsed record lacks
C8_RoundTripKeepsDefinedFields ==
    (pc = "done" /\ console # <<>>) =>
        LET parsed == JSONParse(console[Len(console)])
        IN  /\ Len(parsed) = Len(elementDetails)
            /\ \A i \in 1..Len(parsed) :
                  LET r == elementDetails[i]
                      q == parsed[i]
                  IN  /\ [q EXCEPT !.state = r.state] = r
                      /\ DOMAIN q.state =
                            {k \in DOMAIN r.state : r.state[k] # Undefined}
                      /\ \A k \in DOMAIN q.state : q.state[k] = r.state[k]

\* C9 as claimed: the context of a record is null iff the element has no
\* parent element; otherwise it holds the parent's tag, id, role and
\* aria-label, and a form field iff a form is among the element's ancestors,
\* with the id and name of the nearest one.
C9_FormOnlyFromAncestors ==
    \A i \in 1..Len(emitted) :
        LET n == emitted[i]
            ctx == elementDetails[i].context
            p == doc.parent[n]
            forms == {k \in Ancestors(doc.parent, n) \ {n} :
                        doc.el[k].tag = "form"}
            nearest == CHOOSE k \in forms : \A j \in forms : j <= k
            OrNull(v) == IF v = <<>> THEN Null ELSE v
        IN  /\ ctx = NullObject <=> p = DocumentNode
            /\ ctx # NullObject =>
                  /\ ctx.tagName = <<doc.el[p].tag>>
                  /\ ctx.id = OrNull(doc.el[p].id)
                  /\ ctx.role = doc.el[p].attrs["role"]
                  /\ ctx.ariaLabel = doc.el[p].attrs["aria-label"]
                  /\ "form" \in DOMAIN ctx <=> forms # {}
                  /\ "form" \in DOMAIN ctx /\ forms # {} =>
                        ctx.form = [id   |-> OrNull(doc.el[nearest].id),
                                    name |-> doc.el[nearest].attrs["name"]]

\* the same, for the records of elements that are not themselves forms
C9_HoldsForNonForms ==
    \A i \in 1..Len(emitted) :
        doc.el[emitted[i]].tag # "form" =>
            elementDetails[i].context =
                IF ParentElement(emitted[i]) = NullNode THEN NullObject
                ELSE IF FormAncestorStrict(emitted[i]) # NullNode
                THEN WithForm(ParentContext(ParentElement(emitted[i])),
                              FormContext(FormAncestorStrict(emitted[i])))
                ELSE ParentContext(ParentElement(emitted[i]))

=============================================================================
